---- MODULE Spec2Model ----
(***************************************************************************)
(* Model of management_mahasiswa.py: the Mahasiswa record, the DataManager *)
(* store with its JSON backing file, the sort algorithms and the handlers  *)
(* of the application that mutate the store.                               *)
(*                                                                         *)
(* Strings are sequences of code points, so that lower(), strip(), the     *)
(* regular expressions and Python's lexicographic comparison are computed  *)
(* and not assumed.  Python indices are kept 0-based through At and Put.   *)
(***************************************************************************)
EXTENDS Integers, Sequences, FiniteSets

VARIABLES
    _data,              \* DataManager._data: the list of Mahasiswa objects
    _total_mahasiswa,   \* Mahasiswa._total_mahasiswa: the class-level counter
    file,               \* content of data_mahasiswa.json
    last,               \* the last call made and how it ended
    assigned,           \* history: ids Mahasiswa.__init__ handed out in calls of Tambah
    sort_input,         \* the list passed to a sort function
    sort_by,            \* the key passed to it
    sort_alg,           \* which sort function ran last
    sort_output,        \* the list it returned
    sort_aliased,       \* whether the list it returned is the list passed to it
    search,             \* the search function called last, its arguments and its result
    io_errors,          \* history: writes of the file that failed
    snapshot,           \* the list get_all returned last: references to objects
    snapshot_taken      \* history: what that list held when it was returned

vars == <<_data, _total_mahasiswa, file, last, assigned, io_errors,
          sort_input, sort_by, sort_alg, sort_output, sort_aliased, search,
          snapshot, snapshot_taken>>

snap_vars == <<snapshot, snapshot_taken>>
store_vars == <<_data, _total_mahasiswa, file, last, assigned, io_errors, snap_vars>>
sort_vars == <<sort_input, sort_by, sort_alg, sort_output, sort_aliased>>

(***************************************************************************)
(* Bounds of the model.                                                    *)
(***************************************************************************)
MaxSortLen == 4     \* longest list handed to a sort function
MaxLen == 3         \* most records the store holds
MaxId == 3          \* largest value the id counter reaches
MaxIOErrors == 1    \* most writes of the file that fail in one run
MaxSample == 2      \* how many of the 31 sample records the model loads
MaxSearchLen == 3   \* longest list handed to a search function
MaxRows == 4        \* most rows of a delete screen the loop is run on by itself

(***************************************************************************)
(* Strings.                                                                *)
(***************************************************************************)
At(s, i) == s[i + 1]
Put(s, i, v) == [s EXCEPT ![i + 1] = v]

\* str.lower(), on the ASCII letters
lower(s) == [i \in 1..Len(s) |-> IF s[i] \in 65..90 THEN s[i] + 32 ELSE s[i]]

\* Python's a < b on str: lexicographic by code point
RECURSIVE StrLess(_, _)
StrLess(a, b) ==
    IF b = <<>> THEN FALSE
    ELSE IF a = <<>> THEN TRUE
    ELSE IF Head(a) # Head(b) THEN Head(a) < Head(b)
    ELSE StrLess(Tail(a), Tail(b))

StrGreater(a, b) == StrLess(b, a)
StrLessEq(a, b) == ~StrLess(b, a)

(***************************************************************************)
(* Mahasiswa objects and the key the sort functions compare.               *)
(***************************************************************************)
\* Mahasiswa.__init__ run when the class counter holds total; the caller adds
\* one to the counter
Mahasiswa(nama, nim, total) == [_nama |-> nama, _nim |-> nim, _id |-> total + 1]

\* x.nama.lower() if by == 'nama' else x.nim
sort_key(mhs, by) == IF by = "nama" THEN lower(mhs._nama) ELSE mhs._nim

Keys == {"nama", "nim"}

(***************************************************************************)
(* SortAlgorithms.bubble_sort                                              *)
(***************************************************************************)
swap(s, i, j) == Put(Put(s, i, At(s, j)), j, At(s, i))

\* for j in range(0, n - i - 1)
RECURSIVE bubble_inner(_, _, _, _)
bubble_inner(s, j, stop, by) ==
    IF j >= stop THEN s
    ELSE bubble_inner(
            IF StrGreater(sort_key(At(s, j), by), sort_key(At(s, j + 1), by))
            THEN swap(s, j, j + 1) ELSE s,
            j + 1, stop, by)

\* for i in range(n)
RECURSIVE bubble_outer(_, _, _, _)
bubble_outer(s, i, n, by) ==
    IF i >= n THEN s
    ELSE bubble_outer(bubble_inner(s, 0, n - i - 1, by), i + 1, n, by)

bubble_sort(data, by) == bubble_outer(data, 0, Len(data), by)

(***************************************************************************)
(* SortAlgorithms.selection_sort                                           *)
(***************************************************************************)
\* selection_min with a >= b for a > b: the last of the smallest keys is taken
RECURSIVE selection_min_mutant(_, _, _, _, _)
selection_min_mutant(s, min_idx, j, n, by) ==
    IF j >= n THEN min_idx
    ELSE selection_min_mutant(s,
            IF StrLessEq(sort_key(At(s, j), by), sort_key(At(s, min_idx), by))
            THEN j ELSE min_idx,
            j + 1, n, by)

\* for j in range(i + 1, n): if a > b: min_idx = j
RECURSIVE selection_min(_, _, _, _, _)
selection_min(s, min_idx, j, n, by) ==
    IF j >= n THEN min_idx
    ELSE selection_min(s,
            IF StrGreater(sort_key(At(s, min_idx), by), sort_key(At(s, j), by))
            THEN j ELSE min_idx,
            j + 1, n, by)

\* for i in range(n): ...; swap sorted_data[i] and sorted_data[min_idx]
RECURSIVE selection_outer(_, _, _, _)
selection_outer(s, i, n, by) ==
    IF i >= n THEN s
    ELSE selection_outer(swap(s, i, selection_min(s, i, i + 1, n, by)),
                         i + 1, n, by)

selection_sort(data, by) == selection_outer(data, 0, Len(data), by)

(***************************************************************************)
(* SortAlgorithms.insertion_sort                                           *)
(***************************************************************************)
\* while j >= 0: if a > b: shift, j -= 1; else: break.  Then s[j + 1] = key
RECURSIVE insertion_while(_, _, _, _)
insertion_while(s, j, key, by) ==
    IF j >= 0 /\ StrGreater(sort_key(At(s, j), by), sort_key(key, by))
    THEN insertion_while(Put(s, j + 1, At(s, j)), j - 1, key, by)
    ELSE Put(s, j + 1, key)

\* for i in range(1, len(sorted_data))
RECURSIVE insertion_outer(_, _, _)
insertion_outer(s, i, by) ==
    IF i >= Len(s) THEN s
    ELSE insertion_outer(insertion_while(s, i - 1, At(s, i), by), i + 1, by)

insertion_sort(data, by) == insertion_outer(data, 1, by)

(***************************************************************************)
(* SortAlgorithms.merge_sort and _merge                                    *)
(***************************************************************************)
\* _merge with a < b for a <= b: on a tie the right record is taken
RECURSIVE merge_loop_mutant(_, _, _, _, _, _)
merge_loop_mutant(left, right, i, j, result, by) ==
    IF i < Len(left) /\ j < Len(right)
    THEN IF StrLess(sort_key(At(left, i), by), sort_key(At(right, j), by))
         THEN merge_loop_mutant(left, right, i + 1, j, Append(result, At(left, i)), by)
         ELSE merge_loop_mutant(left, right, i, j + 1, Append(result, At(right, j)), by)
    ELSE result \o SubSeq(left, i + 1, Len(left)) \o SubSeq(right, j + 1, Len(right))

_merge_mutant(left, right, by) == merge_loop_mutant(left, right, 0, 0, <<>>, by)

\* the while loop of _merge followed by the two extend calls
RECURSIVE merge_loop(_, _, _, _, _, _)
merge_loop(left, right, i, j, result, by) ==
    IF i < Len(left) /\ j < Len(right)
    THEN IF StrLessEq(sort_key(At(left, i), by), sort_key(At(right, j), by))
         THEN merge_loop(left, right, i + 1, j, Append(result, At(left, i)), by)
         ELSE merge_loop(left, right, i, j + 1, Append(result, At(right, j)), by)
    ELSE result \o SubSeq(left, i + 1, Len(left)) \o SubSeq(right, j + 1, Len(right))

_merge(left, right, by) == merge_loop(left, right, 0, 0, <<>>, by)

RECURSIVE merge_sort(_, _)
merge_sort(data, by) ==
    IF Len(data) <= 1 THEN data
    ELSE LET mid == Len(data) \div 2
             left == merge_sort(SubSeq(data, 1, mid), by)
             right == merge_sort(SubSeq(data, mid + 1, Len(data)), by)
         IN  _merge(left, right, by)

(***************************************************************************)
(* SortAlgorithms.shell_sort                                               *)
(***************************************************************************)
\* while j >= gap: if a > b: s[j] = s[j - gap], j -= gap; else: break.
\* Then s[j] = temp
RECURSIVE shell_while(_, _, _, _, _)
shell_while(s, j, gap, temp, by) ==
    IF j >= gap /\ StrGreater(sort_key(At(s, j - gap), by), sort_key(temp, by))
    THEN shell_while(Put(s, j, At(s, j - gap)), j - gap, gap, temp, by)
    ELSE Put(s, j, temp)

\* for i in range(gap, n)
RECURSIVE shell_for(_, _, _, _, _)
shell_for(s, i, gap, n, by) ==
    IF i >= n THEN s
    ELSE shell_for(shell_while(s, i, gap, At(s, i), by), i + 1, gap, n, by)

\* shell_gaps with gap > 1 for gap > 0: the pass with gap 1 is left out
RECURSIVE shell_gaps_mutant(_, _, _, _)
shell_gaps_mutant(s, gap, n, by) ==
    IF gap <= 1 THEN s
    ELSE shell_gaps_mutant(shell_for(s, gap, gap, n, by), gap \div 2, n, by)

\* while gap > 0: ...; gap //= 2
RECURSIVE shell_gaps(_, _, _, _)
shell_gaps(s, gap, n, by) ==
    IF gap <= 0 THEN s
    ELSE shell_gaps(shell_for(s, gap, gap, n, by), gap \div 2, n, by)

shell_sort(data, by) == shell_gaps(data, Len(data) \div 2, Len(data), by)

(***************************************************************************)
(* SearchAlgorithms                                                        *)
(***************************************************************************)
\* Python's sub in s on str
str_in_mutant(sub, s) == Len(sub) <= Len(s) /\ SubSeq(s, 1, Len(sub)) = sub

str_in(sub, s) == \E i \in 0..(Len(s) - Len(sub)) : SubSeq(s, i + 1, i + Len(sub)) = sub

\* for mhs in data: value = ...; if keyword_lower in value.lower(): append
RECURSIVE linear_for(_, _, _, _, _)
linear_for(data, k, keyword_lower, by, results) ==
    IF k > Len(data) THEN results
    ELSE LET mhs == data[k]
             value == IF by = "nama" THEN lower(mhs._nama) ELSE mhs._nim
         IN  linear_for(data, k + 1, keyword_lower, by,
                        IF str_in(keyword_lower, lower(value))
                        THEN Append(results, mhs) ELSE results)

\* data is the list as the call leaves it
linear_search(data, keyword, by) ==
    [data |-> data, result |-> linear_for(data, 1, lower(keyword), by, <<>>), steps |-> 0]

sequential_search(data, keyword) == linear_search(data, keyword, "nama")

\* sorted(data, key=lambda x: x.nim): a new list, stably sorted.  x goes
\* behind the records whose nim is not greater than its own
RECURSIVE sorted_insert(_, _)
sorted_insert(s, x) ==
    IF s = <<>> THEN <<x>>
    ELSE IF StrLess(x._nim, s[1]._nim) THEN <<x>> \o s
    ELSE <<s[1]>> \o sorted_insert(Tail(s), x)

RECURSIVE sorted_from(_, _, _)
sorted_from(data, k, s) ==
    IF k > Len(data) THEN s ELSE sorted_from(data, k + 1, sorted_insert(s, data[k]))

\* the search run on the list as passed
sorted_by_nim_mutant(data) == data

sorted_by_nim(data) == sorted_from(data, 1, <<>>)

\* while low <= high; steps counts the passes through the loop
RECURSIVE binary_while(_, _, _, _, _)
binary_while(sorted_data, nim, low, high, steps) ==
    IF low > high THEN [result |-> <<>>, steps |-> steps]
    ELSE LET mid == (low + high) \div 2
             mid_nim == At(sorted_data, mid)._nim
         IN  IF mid_nim = nim
             THEN [result |-> <<At(sorted_data, mid)>>, steps |-> steps + 1]
             ELSE IF StrLess(mid_nim, nim)
             THEN binary_while(sorted_data, nim, mid + 1, high, steps + 1)
             ELSE binary_while(sorted_data, nim, low, mid - 1, steps + 1)

\* the result is a list of at most one record: empty stands for None
binary_search(data, nim) ==
    LET sorted_data == sorted_by_nim(data)
        found == binary_while(sorted_data, nim, 0, Len(sorted_data) - 1, 0)
    IN  [data |-> data, result |-> found.result, steps |-> found.steps]

\* the lists handed to the search functions, the keywords and the
\* registration numbers searched for
SearchNames == { <<65, 98>>, <<97, 66>>, <<98, 97>> }       \* "Ab", "aB", "ba"
SearchNims == { <<49>>, <<49, 50>>, <<50>> }                \* "1", "12", "2"
SearchKeywords == { <<>>, <<97>>, <<66>>, <<97, 98>>, <<50>>, <<50, 49>> }  \* "", "a", "B", "ab", "2", "21"
SearchNimArgs == SearchNims \cup { <<49, 49>> }             \* and "11"

SearchInputs ==
    UNION { { [i \in 1..n |-> Mahasiswa(f[i][1], f[i][2], i - 1)] :
                f \in [1..n -> SearchNames \X SearchNims] } : n \in 0..MaxSearchLen }

NoSearch ==
    [alg |-> "none", data |-> <<>>, keyword |-> <<>>, by |-> "nama", result |-> <<>>, steps |-> 0]
\* whether the list a sort function returns is the list object it was given:
\* bubble_sort, selection_sort, insertion_sort and shell_sort work on
\* data.copy() and return that; merge_sort returns data itself when
\* len(data) <= 1 and the new list of _merge otherwise
returns_data(alg, data) == alg = "merge_sort" /\ Len(data) <= 1

(***************************************************************************)
(* The lists handed to the sort functions: freshly constructed records,    *)
(* so the id of a record is its position in the list.                      *)
(***************************************************************************)
SortNames == { <<98>>, <<66>>, <<97, 98>> }     \* "b", "B", "ab"
SortNims == { <<50>>, <<49, 48>> }              \* "2", "10"

SortInputs ==
    UNION { { [i \in 1..n |-> Mahasiswa(f[i][1], f[i][2], i - 1)] :
                f \in [1..n -> SortNames \X SortNims] } : n \in 0..MaxSortLen }

(***************************************************************************)
(* Python list indexing: a negative index counts from the end.             *)
(***************************************************************************)
py_index(s, i) == IF i < 0 THEN i + Len(s) ELSE i
py_in_range(s, i) == py_index(s, i) >= 0 /\ py_index(s, i) < Len(s)
py_get(s, i) == At(s, py_index(s, i))
py_set(s, i, v) == Put(s, py_index(s, i), v)

\* py_del deleting the last element whatever the index
py_del_mutant(s, i) == SubSeq(s, 1, Len(s) - 1)

\* del s[i]
py_del(s, i) == SubSeq(s, 1, py_index(s, i)) \o SubSeq(s, py_index(s, i) + 2, Len(s))

(***************************************************************************)
(* The setters of Person.nama and Mahasiswa.nim, and the Validator.        *)
(***************************************************************************)
Whitespace == {9, 10, 11, 12, 13, 28, 29, 30, 31, 32}
Digits == 48..57
NameChars == (65..90) \cup (97..122) \cup Whitespace \cup {46}

AllIn(s, chars) == \A i \in 1..Len(s) : s[i] \in chars

\* not value.strip()
strip_is_empty(value) == AllIn(value, Whitespace)

\* re.match(r'^[chars]{lo,hi}$', value): $ also matches before a final newline
re_match(value, chars, lo, hi) ==
    \/ Len(value) \in lo..hi /\ AllIn(value, chars)
    \/ /\ Len(value) > 0
       /\ value[Len(value)] = 10
       /\ Len(value) - 1 \in lo..hi
       /\ AllIn(SubSeq(value, 1, Len(value) - 1), chars)

\* re.match(r'^\d+$', value)
nim_setter_accepts(value) == re_match(value, Digits, 1, Len(value))

\* Validator.validate_nama and Validator.validate_nim
validate_nama(nama) == re_match(nama, NameChars, 3, 50)
validate_nim(nim) == re_match(nim, Digits, 9, 12)

(***************************************************************************)
(* Serialization: Mahasiswa.to_dict and from_dict, and the JSON document   *)
(* in the file.  The file is absent, holds a JSON list of objects, or      *)
(* holds the unparsable text a failed write left.                          *)
(***************************************************************************)
NoFile == [kind |-> "absent", doc |-> <<>>]
Corrupt == [kind |-> "partial", doc |-> <<>>]
Json(doc) == [kind |-> "json", doc |-> doc]

to_dict(mhs) == [id |-> mhs._id, nama |-> mhs._nama, nim |-> mhs._nim]

\* Serialize leaving out the last record
Serialize_mutant(data) == [i \in 1..(Len(data) - 1) |-> to_dict(data[i])]

\* [mhs.to_dict() for mhs in self._data], written by json.dump
Serialize(data) == [i \in 1..Len(data) |-> to_dict(data[i])]

\* from_dict without mhs._id = data['id']: the id the constructor drew stays
from_dict_mutant(d, total) == Mahasiswa(d.nama, d.nim, total)

\* cls(data['nama'], data['nim']) followed by mhs._id = data['id']
from_dict(d, total) == [Mahasiswa(d.nama, d.nim, total) EXCEPT !._id = d.id]

\* [Mahasiswa.from_dict(item) for item in data]: each call moves the counter
from_dict_list(items, total) ==
    [k \in 1..Len(items) |-> from_dict(items[k], total + k - 1)]

\* the counter set to the number of records loaded instead of the largest id
max_id_mutant(data) == Len(data)
\* max(ids, default=0)
max_id(data) ==
    IF data = <<>> THEN 0
    ELSE CHOOSE m \in { data[i]._id : i \in 1..Len(data) } :
            \A i \in 1..Len(data) : data[i]._id <= m

(***************************************************************************)
(* DataManager.  Each operator gives what the method does to the list, and *)
(* whether it raised or went on to save; simpan_ke_file gives the ways a   *)
(* write can end.                                                          *)
(***************************************************************************)
\* valid_index without the test 0 <= index
valid_index_mutant(index, data) == index < Len(data)

\* 0 <= index < len(self._data)
valid_index(index, data) == 0 <= index /\ index < Len(data)

\* open(path, 'w') and json.dump: the write succeeds, or open fails and the
\* file is as it was, or the dump fails and leaves partial text
simpan_ke_file(data, f, errors) ==
    { [file |-> Json(Serialize(data)), raised |-> FALSE] }
    \cup IF errors < MaxIOErrors
         THEN { [file |-> f, raised |-> TRUE], [file |-> Corrupt, raised |-> TRUE] }
         ELSE {}

\* the result is a list of at most one record: empty stands for None
get_by_index(data, index) ==
    IF valid_index(index, data)
    THEN IF py_in_range(data, index) THEN <<py_get(data, index)>> ELSE <<>>
    ELSE <<>>

tambah(data, mahasiswa) == [data |-> Append(data, mahasiswa), raised |-> FALSE, save |-> TRUE]

\* edit assigning the given name to both fields
edit_mutant(data, index, nama, nim) ==
    IF ~valid_index(index, data) \/ ~py_in_range(data, index)
    THEN [data |-> data, raised |-> FALSE, save |-> FALSE]
    ELSE [data |-> py_set(data, index, [py_get(data, index) EXCEPT !._nama = nama, !._nim = nama]),
          raised |-> FALSE, save |-> TRUE]

edit(data, index, nama, nim) ==
    IF ~valid_index(index, data)
    THEN [data |-> data, raised |-> FALSE, save |-> FALSE]
    ELSE IF ~py_in_range(data, index) \/ strip_is_empty(nama)
    THEN [data |-> data, raised |-> TRUE, save |-> FALSE]
    ELSE LET named == py_set(data, index, [py_get(data, index) EXCEPT !._nama = nama])
         IN  IF ~nim_setter_accepts(nim)
             THEN [data |-> named, raised |-> TRUE, save |-> FALSE]
             ELSE [data |-> py_set(named, index, [py_get(named, index) EXCEPT !._nim = nim]),
                   raised |-> FALSE, save |-> TRUE]

hapus(data, index) ==
    IF ~valid_index(index, data)
    THEN [data |-> data, raised |-> FALSE, save |-> FALSE]
    ELSE IF ~py_in_range(data, index)
    THEN [data |-> data, raised |-> TRUE, save |-> FALSE]
    ELSE [data |-> py_del(data, index), raised |-> FALSE, save |-> TRUE]

\* the file exists and parses, and what the load then makes of it
baca_dari_file(data, total, f) ==
    IF f = NoFile THEN [data |-> data, total |-> total, raised |-> FALSE]
    ELSE IF f = Corrupt THEN [data |-> data, total |-> total, raised |-> TRUE]
    ELSE LET loaded == from_dict_list(f.doc, total)
         IN  [data |-> loaded, total |-> max_id(loaded), raised |-> FALSE]

\* self._data.copy(): a new list whose entries are the objects of the store
\* themselves.  An entry is a reference: the position pos of the object in
\* the store, or pos = 0 and the object obj once the store let go of it
get_all(data) == [k \in 1..Len(data) |-> [pos |-> k, obj |-> data[k]]]

\* the object an entry of such a list refers to, as it is now
deref(entry, data) == IF entry.pos > 0 THEN data[entry.pos] ELSE entry.obj



\* del self._data[index]: the object leaves the store and lives on in the
\* lists that refer to it; the objects behind it move down by one
after_del(list, data, index) ==
    [k \in 1..Len(list) |->
        IF list[k].pos = py_index(data, index) + 1 THEN [pos |-> 0, obj |-> deref(list[k], data)]
        ELSE IF list[k].pos > py_index(data, index) + 1 THEN [list[k] EXCEPT !.pos = @ - 1]
        ELSE list[k]]

\* self._data = [...]: the store holds new objects; the old ones live on in
\* the lists that refer to them
after_rebind(list, data) == [k \in 1..Len(list) |-> [pos |-> 0, obj |-> deref(list[k], data)]]

(***************************************************************************)
(* Calls of the DataManager methods.                                       *)
(***************************************************************************)
Ada == <<65, 100, 97>>          \* "Ada"
Bob == <<66, 111, 98>>          \* "Bob"
Blank == <<32, 32>>             \* "  "
Nim1 == <<49>>                  \* "1"
Nim20 == <<50, 48>>             \* "20"
Nim1a == <<49, 97>>             \* "1a"

\* the arguments the calls are made with: a record to add; for edit, values
\* both setters accept, a name the first setter rejects, and a registration
\* number the second setter rejects
TambahArgs == { <<Ada, Nim1>> }
EditArgs == { <<Bob, Nim20>>, <<Blank, Nim20>>, <<Bob, Nim1a>> }
Indices == -1..MaxLen

\* what the model records of a call: its index argument, whether it raised,
\* how often it called simpan_ke_file, what get_by_index returned, the id a
\* constructor handed out and, for a load, whether the call before it ended
\* in a write that succeeded
Called(op, index, raised, writes, result, new_id) ==
    last' = [op |-> op, index |-> index, raised |-> raised, writes |-> writes,
             result |-> result, new_id |-> new_id,
             follows_save |-> (op = "baca_dari_file" /\ last.writes > 0 /\ ~last.raised)]

\* the end of a mutating method: r is what it did to the list; when it went on
\* to save, the write ends in one of its ways
Mutated(op, index, r, new_id) ==
    /\ _data' = r.data
    /\ IF r.save
       THEN \E out \in simpan_ke_file(r.data, file, io_errors) :
               /\ file' = out.file
               /\ io_errors' = io_errors + (IF out.raised THEN 1 ELSE 0)
               /\ Called(op, index, out.raised, 1, <<>>, new_id)
       ELSE /\ UNCHANGED <<file, io_errors>>
            /\ Called(op, index, r.raised, 0, <<>>, new_id)

\* mhs = Mahasiswa(nama, nim); data_manager.tambah(mhs)
Tambah ==
    \E args \in TambahArgs :
        /\ Len(_data) < MaxLen
        /\ _total_mahasiswa < MaxId
        /\ LET mhs == Mahasiswa(args[1], args[2], _total_mahasiswa)
           IN  /\ Mutated("tambah", 0, tambah(_data, mhs), mhs._id)
               /\ assigned' = assigned \cup {mhs._id}
        /\ _total_mahasiswa' = _total_mahasiswa + 1
        /\ UNCHANGED <<sort_vars, search, snap_vars>>

\* data_manager.edit(index, nama, nim)
EditCall(index, nama, nim) ==
    /\ Mutated("edit", index, edit(_data, index, nama, nim), 0)
    /\ UNCHANGED <<_total_mahasiswa, assigned, sort_vars, search, snap_vars>>

Edit == \E index \in Indices, args \in EditArgs : EditCall(index, args[1], args[2])

Hapus ==
    \E index \in Indices :
        /\ Mutated("hapus", index, hapus(_data, index), 0)
        /\ snapshot' = IF hapus(_data, index).save THEN after_del(snapshot, _data, index) ELSE snapshot
        /\ UNCHANGED <<_total_mahasiswa, assigned, sort_vars, search, snapshot_taken>>

GetByIndex ==
    \E index \in Indices :
        /\ Called("get_by_index", index, FALSE, 0, get_by_index(_data, index), 0)
        /\ UNCHANGED <<_data, _total_mahasiswa, file, assigned, io_errors, sort_vars, search, snap_vars>>

SimpanKeFile ==
    \E out \in simpan_ke_file(_data, file, io_errors) :
        /\ file' = out.file
        /\ io_errors' = io_errors + (IF out.raised THEN 1 ELSE 0)
        /\ Called("simpan_ke_file", 0, out.raised, 1, <<>>, 0)
        /\ UNCHANGED <<_data, _total_mahasiswa, assigned, sort_vars, search, snap_vars>>

BacaDariFile ==
    LET r == baca_dari_file(_data, _total_mahasiswa, file)
    IN  /\ _data' = r.data
        /\ _total_mahasiswa' = r.total
        /\ Called("baca_dari_file", 0, r.raised, 0, <<>>, 0)
        /\ snapshot' = IF file.kind = "json" THEN after_rebind(snapshot, _data) ELSE snapshot
        /\ UNCHANGED <<file, assigned, io_errors, sort_vars, search, snapshot_taken>>

\* data_manager.get_all(), the caller keeping the list
GetAll ==
    /\ snapshot' = get_all(_data)
    /\ snapshot_taken' = _data
    /\ Called("get_all", 0, FALSE, 0, <<>>, 0)
    /\ UNCHANGED <<_data, _total_mahasiswa, file, assigned, io_errors, sort_vars, search>>

\* the arguments a constructor is called with: values the setters accept, a
\* name that is blank, a registration number with a letter, and empty strings
ConstructArgs == { <<Ada, Nim1>>, <<Blank, Nim1>>, <<Ada, Nim1a>>, << <<>>, <<>> >> }

\* Mahasiswa(nama, nim): Person.__init__ and Mahasiswa.__init__ assign _nama
\* and _nim directly, not through the setters, and have no raise
ConstructCall(nama, nim) ==
    /\ _total_mahasiswa < MaxId
    /\ _total_mahasiswa' = _total_mahasiswa + 1
    /\ LET mhs == Mahasiswa(nama, nim, _total_mahasiswa)
       IN  Called("Mahasiswa", 0, FALSE, 0, <<mhs>>, mhs._id)
    /\ UNCHANGED <<_data, file, assigned, io_errors, sort_vars, search, snap_vars>>

Construct == \E args \in ConstructArgs : ConstructCall(args[1], args[2])
\* the state of the store before anything ran
StoreInit ==
    /\ _data = <<>>
    /\ _total_mahasiswa = 0
    /\ file = NoFile
    /\ last = [op |-> "init", index |-> 0, raised |-> FALSE, writes |-> 0,
               result |-> <<>>, new_id |-> 0, follows_save |-> FALSE]
    /\ assigned = {}
    /\ io_errors = 0
    /\ snapshot = <<>>
    /\ snapshot_taken = <<>>

Init ==
    /\ StoreInit
    /\ sort_input = <<>>
    /\ sort_by = "nama"
    /\ sort_alg = "none"
    /\ sort_output = <<>>
    /\ sort_aliased = FALSE
    /\ search = NoSearch

Next == Tambah \/ Edit \/ Hapus \/ GetByIndex \/ SimpanKeFile \/ BacaDariFile
Spec == Init /\ [][Next]_vars

(***************************************************************************)
(* The process ending inside a write.                                      *)
(***************************************************************************)
\* what simpan_ke_file leaves when the process ends inside it: the file as it
\* was (before open), the file truncated by open(path, 'w') or holding part
\* of the dump, or the finished dump
interrupted_write(data, f) == { f, Corrupt, Json(Serialize(data)) }

\* the mutating calls that can be made in this state and go on to save
saving_calls(data, total) ==
    { r \in { edit(data, index, args[1], args[2]) : index \in Indices, args \in EditArgs }
            \cup { hapus(data, index) : index \in Indices }
            \cup { tambah(data, Mahasiswa(args[1], args[2], total)) :
                     args \in { a \in TambahArgs : Len(data) < MaxLen /\ total < MaxId } } :
        r.save }

\* a mutating call changes the list and the process ends inside its
\* simpan_ke_file; the next process starts with a new DataManager (empty
\* list) and the class counter at 0, holds no list of the old process, and
\* loads the file.  raised tells whether that load raised
Crash ==
    \E r \in saving_calls(_data, _total_mahasiswa) :
        \E f \in interrupted_write(r.data, file) :
            LET loaded == baca_dari_file(<<>>, 0, f)
            IN  /\ file' = f
                /\ _data' = loaded.data
                /\ _total_mahasiswa' = loaded.total
                /\ last' = [op |-> "crash", index |-> 0, raised |-> loaded.raised, writes |-> 1,
                            result |-> <<>>, new_id |-> 0, follows_save |-> FALSE]
                /\ snapshot' = <<>>
                /\ snapshot_taken' = <<>>
                /\ UNCHANGED <<assigned, io_errors, sort_vars, search>>

\* the store with a caller that holds a list from get_all
NextSnapshot == GetAll \/ Tambah \/ Edit \/ Hapus
SpecSnapshot == Init /\ [][NextSnapshot]_vars

\* the store with a caller that also constructs records of its own
NextConstruct == Construct \/ Tambah \/ Edit \/ Hapus
SpecConstruct == Init /\ [][NextConstruct]_vars
NextCrash == Tambah \/ Edit \/ Hapus \/ BacaDariFile \/ Crash
SpecCrash == Init /\ [][NextCrash]_vars

(***************************************************************************)
(* The handlers of AplikasiManajemenMahasiswa that change the store.  A    *)
(* handler makes store calls, each of which saves, and then saves once     *)
(* more itself; the first write that fails raises, which ends the handler  *)
(* in its except clause with the calls made so far done.                   *)
(***************************************************************************)
\* the 31 (nama, nim) pairs of _load_sample_data
sample_data_all == <<
    \* line 1045: ("Azka Insan Robbani", "24101140099")
    << <<65, 122, 107, 97, 32, 73, 110, 115, 97, 110, 32, 82, 111, 98, 98, 97, 110, 105>>,
       <<50, 52, 49, 48, 49, 49, 52, 48, 48, 57, 57>> >>,
    \* line 1046: ("Bagus ardiansyah", "241011401958")
    << <<66, 97, 103, 117, 115, 32, 97, 114, 100, 105, 97, 110, 115, 121, 97, 104>>,
       <<50, 52, 49, 48, 49, 49, 52, 48, 49, 57, 53, 56>> >>,
    \* line 1047: ("Fathur Rachman", "241011401713")
    << <<70, 97, 116, 104, 117, 114, 32, 82, 97, 99, 104, 109, 97, 110>>,
       <<50, 52, 49, 48, 49, 49, 52, 48, 49, 55, 49, 51>> >>,
    \* line 1048: ("Tumpal Sinaga", "241011400087")
    << <<84, 117, 109, 112, 97, 108, 32, 83, 105, 110, 97, 103, 97>>,
       <<50, 52, 49, 48, 49, 49, 52, 48, 48, 48, 56, 55>> >>,
    \* line 1049: ("Vina Aulia", "241011401650")
    << <<86, 105, 110, 97, 32, 65, 117, 108, 105, 97>>,
       <<50, 52, 49, 48, 49, 49, 52, 48, 49, 54, 53, 48>> >>,
    \* line 1050: ("Satria Apriza Fajar", "241011400103")
    << <<83, 97, 116, 114, 105, 97, 32, 65, 112, 114, 105, 122, 97, 32, 70, 97, 106, 97, 114>>,
       <<50, 52, 49, 48, 49, 49, 52, 48, 48, 49, 48, 51>> >>,
    \* line 1051: ("Davrielle saddad", "241011400085")
    << <<68, 97, 118, 114, 105, 101, 108, 108, 101, 32, 115, 97, 100, 100, 97, 100>>,
       <<50, 52, 49, 48, 49, 49, 52, 48, 48, 48, 56, 53>> >>,
    \* line 1052: ("JANDRI HARTAT GEA", "241012402295")
    << <<74, 65, 78, 68, 82, 73, 32, 72, 65, 82, 84, 65, 84, 32, 71, 69, 65>>,
       <<50, 52, 49, 48, 49, 50, 52, 48, 50, 50, 57, 53>> >>,
    \* line 1053: ("Walman pangaribuan", "241011400094")
    << <<87, 97, 108, 109, 97, 110, 32, 112, 97, 110, 103, 97, 114, 105, 98, 117, 97, 110>>,
       <<50, 52, 49, 48, 49, 49, 52, 48, 48, 48, 57, 52>> >>,
    \* line 1054: ("Rafli", "24011400075")
    << <<82, 97, 102, 108, 105>>,
       <<50, 52, 48, 49, 49, 52, 48, 48, 48, 55, 53>> >>,
    \* line 1055: ("Jason Cornelius Chandra", "241011401866")
    << <<74, 97, 115, 111, 110, 32, 67, 111, 114, 110, 101, 108, 105, 117, 115, 32, 67, 104, 97, 110, 100, 114, 97>>,
       <<50, 52, 49, 48, 49, 49, 52, 48, 49, 56, 54, 54>> >>,
    \* line 1056: ("Ahmad Rasyid", "241011402663")
    << <<65, 104, 109, 97, 100, 32, 82, 97, 115, 121, 105, 100>>,
       <<50, 52, 49, 48, 49, 49, 52, 48, 50, 54, 54, 51>> >>,
    \* line 1057: ("Ferda Ayi Sukaesih Sutanto", "241011400068")
    << <<70, 101, 114, 100, 97, 32, 65, 121, 105, 32, 83, 117, 107, 97, 101, 115, 105, 104, 32, 83, 117, 116, 97, 110, 116, 111>>,
       <<50, 52, 49, 48, 49, 49, 52, 48, 48, 48, 54, 56>> >>,
    \* line 1058: ("M. Ikram Maulana", "241011402896")
    << <<77, 46, 32, 73, 107, 114, 97, 109, 32, 77, 97, 117, 108, 97, 110, 97>>,
       <<50, 52, 49, 48, 49, 49, 52, 48, 50, 56, 57, 54>> >>,
    \* line 1059: ("Nazril Supriyadi", "241011400091")
    << <<78, 97, 122, 114, 105, 108, 32, 83, 117, 112, 114, 105, 121, 97, 100, 105>>,
       <<50, 52, 49, 48, 49, 49, 52, 48, 48, 48, 57, 49>> >>,
    \* line 1060: ("Ade jahwa aulia", "241011402829")
    << <<65, 100, 101, 32, 106, 97, 104, 119, 97, 32, 97, 117, 108, 105, 97>>,
       <<50, 52, 49, 48, 49, 49, 52, 48, 50, 56, 50, 57>> >>,
    \* line 1061: ("Maulana ikhsan fadhillah", "241011400092")
    << <<77, 97, 117, 108, 97, 110, 97, 32, 105, 107, 104, 115, 97, 110, 32, 102, 97, 100, 104, 105, 108, 108, 97, 104>>,
       <<50, 52, 49, 48, 49, 49, 52, 48, 48, 48, 57, 50>> >>,
    \* line 1062: ("Dea Amellya", "241011400089")
    << <<68, 101, 97, 32, 65, 109, 101, 108, 108, 121, 97>>,
       <<50, 52, 49, 48, 49, 49, 52, 48, 48, 48, 56, 57>> >>,
    \* line 1063: ("Risqi Eko Trianto", "241011402427")
    << <<82, 105, 115, 113, 105, 32, 69, 107, 111, 32, 84, 114, 105, 97, 110, 116, 111>>,
       <<50, 52, 49, 48, 49, 49, 52, 48, 50, 52, 50, 55>> >>,
    \* line 1064: ("Rizki Ramadani", "241011400098")
    << <<82, 105, 122, 107, 105, 32, 82, 97, 109, 97, 100, 97, 110, 105>>,
       <<50, 52, 49, 48, 49, 49, 52, 48, 48, 48, 57, 56>> >>,
    \* line 1065: ("muhammad alif fajriansyah", "241011402197")
    << <<109, 117, 104, 97, 109, 109, 97, 100, 32, 97, 108, 105, 102, 32, 102, 97, 106, 114, 105, 97, 110, 115, 121, 97, 104>>,
       <<50, 52, 49, 48, 49, 49, 52, 48, 50, 49, 57, 55>> >>,
    \* line 1066: ("dzaki ramadhan", "241011400097")
    << <<100, 122, 97, 107, 105, 32, 114, 97, 109, 97, 100, 104, 97, 110>>,
       <<50, 52, 49, 48, 49, 49, 52, 48, 48, 48, 57, 55>> >>,
    \* line 1067: ("Servatius Hasta Kristanto", "241011400076")
    << <<83, 101, 114, 118, 97, 116, 105, 117, 115, 32, 72, 97, 115, 116, 97, 32, 75, 114, 105, 115, 116, 97, 110, 116, 111>>,
       <<50, 52, 49, 48, 49, 49, 52, 48, 48, 48, 55, 54>> >>,
    \* line 1068: ("Ahmad Firdaus", "241011401761")
    << <<65, 104, 109, 97, 100, 32, 70, 105, 114, 100, 97, 117, 115>>,
       <<50, 52, 49, 48, 49, 49, 52, 48, 49, 55, 54, 49>> >>,
    \* line 1069: ("Ade sofyan", "241011402338")
    << <<65, 100, 101, 32, 115, 111, 102, 121, 97, 110>>,
       <<50, 52, 49, 48, 49, 49, 52, 48, 50, 51, 51, 56>> >>,
    \* line 1070: ("Dimas Ahmad", "241011402835")
    << <<68, 105, 109, 97, 115, 32, 65, 104, 109, 97, 100>>,
       <<50, 52, 49, 48, 49, 49, 52, 48, 50, 56, 51, 53>> >>,
    \* line 1071: ("Adam Darmansyah", "241011401470")
    << <<65, 100, 97, 109, 32, 68, 97, 114, 109, 97, 110, 115, 121, 97, 104>>,
       <<50, 52, 49, 48, 49, 49, 52, 48, 49, 52, 55, 48>> >>,
    \* line 1072: ("Muhammad Noer Alam P", "241011400079")
    << <<77, 117, 104, 97, 109, 109, 97, 100, 32, 78, 111, 101, 114, 32, 65, 108, 97, 109, 32, 80>>,
       <<50, 52, 49, 48, 49, 49, 52, 48, 48, 48, 55, 57>> >>,
    \* line 1073: ("Azmi Al Fahriza", "241011403269")
    << <<65, 122, 109, 105, 32, 65, 108, 32, 70, 97, 104, 114, 105, 122, 97>>,
       <<50, 52, 49, 48, 49, 49, 52, 48, 51, 50, 54, 57>> >>,
    \* line 1074: ("Ahmad Irfan", "241011402053")
    << <<65, 104, 109, 97, 100, 32, 73, 114, 102, 97, 110>>,
       <<50, 52, 49, 48, 49, 49, 52, 48, 50, 48, 53, 51>> >>,
    \* line 1075: ("Gregorius Gilbert Ieli Sarjana", "241011402382")
    << <<71, 114, 101, 103, 111, 114, 105, 117, 115, 32, 71, 105, 108, 98, 101, 114, 116, 32, 73, 101, 108, 105, 32, 83, 97, 114, 106, 97, 110, 97>>,
       <<50, 52, 49, 48, 49, 49, 52, 48, 50, 51, 56, 50>> >>
>>

\* the pairs of the list the model loads
sample_data == SubSeq(sample_data_all, 1, MaxSample)

Stage(data, total) == [data |-> data, total |-> total]

\* stages: the list and the counter after each store call of the handler, the
\* state before the first call at their head.  The handler ends after its own
\* final save, or in the k-th write failing.
handler_outcomes(stages, f, errors) ==
    LET n == Len(stages) - 1
        done == stages[n + 1]
        \* the state when the k-th write runs, and the file before it
        at(k) == stages[IF k <= n THEN k + 1 ELSE n + 1]
        before(k) == IF k = 1 THEN f ELSE Json(Serialize(stages[k].data))
    IN  { [data |-> done.data, total |-> done.total,
           file |-> Json(Serialize(done.data)), raised |-> FALSE, writes |-> n + 1] }
        \cup IF errors < MaxIOErrors
             THEN { [data |-> at(k).data, total |-> at(k).total,
                     file |-> IF partial THEN Corrupt ELSE before(k),
                     raised |-> TRUE, writes |-> k] :
                        k \in 1..(n + 1), partial \in BOOLEAN }
             ELSE {}

\* existing_nim comparing the name of the records for their number
existing_nim_mutant(data, nim) == \E i \in 1..Len(data) : data[i]._nama = nim

\* any(mhs.nim == nim for mhs in self.data_manager.get_all())
existing_nim(data, nim) == \E i \in 1..Len(data) : data[i]._nim = nim

\* any(i != index and m.nim == new_nim for i, m in enumerate(data))
existing_nim_other(data, index, new_nim) ==
    \E i \in 0..(Len(data) - 1) : i # index /\ At(data, i)._nim = new_nim

\* the import loop without existing_nims.add(mhs.nim)
RECURSIVE import_loop_mutant(_, _, _, _, _)
import_loop_mutant(imported_data, k, existing_nims, total, stages) ==
    IF k > Len(imported_data) THEN stages
    ELSE LET mhs == imported_data[k]
         IN  IF mhs._nim \notin existing_nims
             THEN import_loop_mutant(imported_data, k + 1, existing_nims, total,
                      Append(stages,
                             Stage(tambah(stages[Len(stages)].data, mhs).data, total)))
             ELSE import_loop_mutant(imported_data, k + 1, existing_nims, total, stages)
\* for mhs in imported_data: if mhs.nim not in existing_nims: tambah, add
RECURSIVE import_loop(_, _, _, _, _)
import_loop(imported_data, k, existing_nims, total, stages) ==
    IF k > Len(imported_data) THEN stages
    ELSE LET mhs == imported_data[k]
         IN  IF mhs._nim \notin existing_nims
             THEN import_loop(imported_data, k + 1, existing_nims \cup {mhs._nim}, total,
                      Append(stages,
                             Stage(tambah(stages[Len(stages)].data, mhs).data, total)))
             ELSE import_loop(imported_data, k + 1, existing_nims, total, stages)

\* added_count of the same loop
RECURSIVE import_added_count(_, _, _, _)
import_added_count(imported_data, k, existing_nims, added_count) ==
    IF k > Len(imported_data) THEN added_count
    ELSE LET mhs == imported_data[k]
         IN  IF mhs._nim \notin existing_nims
             THEN import_added_count(imported_data, k + 1, existing_nims \cup {mhs._nim},
                                     added_count + 1)
             ELSE import_added_count(imported_data, k + 1, existing_nims, added_count)

\* the delete loop going through the selected indices in ascending order
RECURSIVE delete_loop_mutant(_, _, _)
delete_loop_mutant(selected_indices, total, stages) ==
    IF selected_indices = {} THEN stages
    ELSE LET idx == CHOOSE i \in selected_indices : \A j \in selected_indices : i <= j
         IN  delete_loop_mutant(selected_indices \ {idx}, total,
                 Append(stages, Stage(hapus(stages[Len(stages)].data, idx).data, total)))
\* for idx in sorted(selected_indices, reverse=True): hapus(idx)
RECURSIVE delete_loop(_, _, _)
delete_loop(selected_indices, total, stages) ==
    IF selected_indices = {} THEN stages
    ELSE LET idx == CHOOSE i \in selected_indices : \A j \in selected_indices : j <= i
         IN  delete_loop(selected_indices \ {idx}, total,
                 Append(stages, Stage(hapus(stages[Len(stages)].data, idx).data, total)))

\* for _ in range(get_count()): hapus(0)
RECURSIVE clear_loop(_, _, _)
clear_loop(count, total, stages) ==
    IF count = 0 THEN stages
    ELSE clear_loop(count - 1, total,
             Append(stages, Stage(hapus(stages[Len(stages)].data, 0).data, total)))

\* for nama, nim in sample_data: mhs = Mahasiswa(nama, nim); tambah(mhs)
RECURSIVE sample_loop(_, _, _)
sample_loop(pairs, k, stages) ==
    IF k > Len(pairs) THEN stages
    ELSE LET now == stages[Len(stages)]
             mhs == Mahasiswa(pairs[k][1], pairs[k][2], now.total)
         IN  sample_loop(pairs, k + 1,
                 Append(stages, Stage(tambah(now.data, mhs).data, now.total + 1)))

Al == <<65, 108>>               \* "Al"
Spaces == <<32, 32, 32>>        \* "   "
Nim12 == <<49, 50>>             \* "12"

\* what is typed into the forms: names and registration numbers the Validator
\* accepts and ones it rejects and, in the edit form, a name it accepts that
\* the setter rejects
FormNames == {sample_data_all[1][1], Al}
EditFormNames == FormNames \cup {Spaces}
FormNims == {sample_data[k][2] : k \in 1..Len(sample_data)} \cup {Nim12}

\* the uploaded JSON lists
ImportItems ==
    { [id |-> id, nama |-> sample_data_all[1][1], nim |-> sample_data_all[k][2]] :
        id \in 1..2, k \in 1..2 }
ImportBatches == { <<a>> : a \in ImportItems } \cup { <<a, b>> : a, b \in ImportItems }

Rejected(op) ==
    /\ Called(op, 0, FALSE, 0, <<>>, 0)
    /\ UNCHANGED <<_data, _total_mahasiswa, file, assigned, io_errors, snap_vars>>

\* assigned, the history of the ids handed out, is kept for the direct calls
\* of the store only; a handler keeps no list of get_all from one run to the
\* next, so snapshot stays empty here
\* report is what the handler shows after its final save, when it gets there
Reported(op, stages, report) ==
    \E out \in handler_outcomes(stages, file, io_errors) :
        /\ _data' = out.data
        /\ _total_mahasiswa' = out.total
        /\ file' = out.file
        /\ io_errors' = io_errors + (IF out.raised THEN 1 ELSE 0)
        /\ UNCHANGED <<assigned, snap_vars>>
        /\ Called(op, 0, out.raised, out.writes, IF out.raised THEN <<>> ELSE report, 0)

Handled(op, stages) == Reported(op, stages, <<>>)

\* AplikasiManajemenMahasiswa.__init__: a new DataManager, then the load
AppStart ==
    LET r == baca_dari_file(<<>>, _total_mahasiswa, file)
    IN  /\ _data' = r.data
        /\ _total_mahasiswa' = r.total
        /\ Called("app_start", 0, r.raised, 0, <<>>, 0)
        /\ UNCHANGED <<file, assigned, io_errors, sort_vars, search, snap_vars>>

InputForm ==
    \E nama \in FormNames, nim \in FormNims :
        /\ IF ~validate_nama(nama) \/ ~validate_nim(nim) \/ existing_nim(_data, nim)
           THEN Rejected("input_form")
           ELSE /\ Len(_data) < MaxLen
                /\ _total_mahasiswa < MaxId
                /\ LET mhs == Mahasiswa(nama, nim, _total_mahasiswa)
                   IN  Handled("input_form",
                               << Stage(_data, _total_mahasiswa + 1),
                                  Stage(tambah(_data, mhs).data, _total_mahasiswa + 1) >>)
        /\ UNCHANGED <<sort_vars, search>>

EditForm ==
    \E index \in 0..(Len(_data) - 1), new_nama \in EditFormNames, new_nim \in FormNims :
        /\ IF \/ ~validate_nama(new_nama)
              \/ ~validate_nim(new_nim)
              \/ existing_nim_other(_data, index, new_nim)
           THEN Rejected("edit_form")
           ELSE LET r == edit(_data, index, new_nama, new_nim)
                IN  IF r.save
                    THEN Handled("edit_form",
                                 << Stage(_data, _total_mahasiswa),
                                    Stage(r.data, _total_mahasiswa) >>)
                    ELSE /\ _data' = r.data
                         /\ Called("edit_form", 0, r.raised, 0, <<>>, 0)
                         /\ UNCHANGED <<_total_mahasiswa, file, assigned, io_errors, snap_vars>>
        /\ UNCHANGED <<sort_vars, search>>

\* the Import Data button with the uploaded list batch
ImportCall(batch) ==
    /\ Len(_data) + Len(batch) <= MaxLen
    /\ _total_mahasiswa + Len(batch) <= MaxId
    /\ LET imported_data == from_dict_list(batch, _total_mahasiswa)
           total == _total_mahasiswa + Len(batch)
           existing_nims == { _data[i]._nim : i \in 1..Len(_data) }
       IN  Reported("import",
                    import_loop(imported_data, 1, existing_nims, total,
                                << Stage(_data, total) >>),
                    << import_added_count(imported_data, 1, existing_nims, 0) >>)
    /\ UNCHANGED <<sort_vars, search>>

ImportData == \E batch \in ImportBatches : ImportCall(batch)

\* the Hapus Data Terpilih button with the rows selected_indices ticked
DeleteCall(selected_indices) ==
    /\ _data # <<>>
    /\ IF selected_indices = {}
       THEN Rejected("delete")
       ELSE Handled("delete",
                    delete_loop(selected_indices, _total_mahasiswa,
                                << Stage(_data, _total_mahasiswa) >>))
    /\ UNCHANGED <<sort_vars, search>>

DeleteSelected ==
    \E selected_indices \in SUBSET (0..(Len(_data) - 1)) : DeleteCall(selected_indices)

LoadSampleData ==
    /\ _total_mahasiswa + Len(sample_data) <= MaxId
    /\ Handled("load_sample_data",
               sample_loop(sample_data, 1,
                           clear_loop(Len(_data), _total_mahasiswa,
                                      << Stage(_data, _total_mahasiswa) >>)))
    /\ UNCHANGED <<sort_vars, search>>

NextApp ==
    AppStart \/ InputForm \/ EditForm \/ ImportData \/ DeleteSelected \/ LoadSampleData
SpecApp == Init /\ [][NextApp]_vars

SortInit ==
    /\ sort_input \in SortInputs
    /\ sort_by \in Keys
    /\ sort_alg = "none"
    /\ sort_output = <<>>
    /\ sort_aliased = FALSE
    /\ search = NoSearch

RunSort(alg, by, output) ==
    /\ sort_alg' = alg
    /\ sort_by' = by
    /\ sort_output' = output
    /\ sort_aliased' = returns_data(alg, sort_input)
    /\ UNCHANGED <<sort_input, store_vars, search>>

BubbleSort == \E by \in Keys : RunSort("bubble_sort", by, bubble_sort(sort_input, by))
SelectionSort == \E by \in Keys : RunSort("selection_sort", by, selection_sort(sort_input, by))
InsertionSort == \E by \in Keys : RunSort("insertion_sort", by, insertion_sort(sort_input, by))
MergeSort == \E by \in Keys : RunSort("merge_sort", by, merge_sort(sort_input, by))
ShellSort == \E by \in Keys : RunSort("shell_sort", by, shell_sort(sort_input, by))

InitSort == StoreInit /\ SortInit
NextSort == BubbleSort \/ SelectionSort \/ InsertionSort \/ MergeSort \/ ShellSort
SpecSort == InitSort /\ [][NextSort]_vars

\* the caller appends a record to the list a sort function returned; that
\* list is the caller's own list when the function returned its argument
Appended == Mahasiswa(<<122>>, <<57>>, MaxSortLen + 1)      \* "z", "9"

AppendToOutput ==
    /\ sort_alg # "none"
    /\ Len(sort_output) <= MaxSortLen
    /\ sort_output' = Append(sort_output, Appended)
    /\ sort_input' = IF sort_aliased THEN Append(sort_input, Appended) ELSE sort_input
    /\ UNCHANGED <<sort_by, sort_alg, sort_aliased, store_vars, search>>

NextSortCaller == NextSort \/ AppendToOutput
SpecSortCaller == InitSort /\ [][NextSortCaller]_vars

(***************************************************************************)
(* Calls of the search functions on one list.                              *)
(***************************************************************************)
Searched(alg, keyword, by, r) ==
    /\ search' = [alg |-> alg, data |-> r.data, keyword |-> keyword, by |-> by,
                  result |-> r.result, steps |-> r.steps]
    /\ UNCHANGED <<store_vars, sort_vars>>

LinearSearch ==
    \E keyword \in SearchKeywords, by \in Keys :
        Searched("linear_search", keyword, by, linear_search(search.data, keyword, by))

SequentialSearch ==
    \E keyword \in SearchKeywords :
        Searched("sequential_search", keyword, "nama", sequential_search(search.data, keyword))

BinarySearch ==
    \E nim \in SearchNimArgs :
        Searched("binary_search", nim, "nim", binary_search(search.data, nim))

InitSearch ==
    /\ StoreInit
    /\ sort_input = <<>>
    /\ sort_by = "nama"
    /\ sort_alg = "none"
    /\ sort_output = <<>>
    /\ sort_aliased = FALSE
    /\ search \in { [NoSearch EXCEPT !.data = data] : data \in SearchInputs }

NextSearch == LinearSearch \/ SequentialSearch \/ BinarySearch
SpecSearch == InitSearch /\ [][NextSearch]_vars

(***************************************************************************)
(* Properties of the sort functions.                                       *)
(***************************************************************************)
Occurrences(s, x) == Cardinality({ i \in 1..Len(s) : s[i] = x })

IsPermutation(s, t) ==
    /\ Len(s) = Len(t)
    /\ \A i \in 1..Len(s) : Occurrences(s, s[i]) = Occurrences(t, s[i])

IsSortedBy(s, by) ==
    \A i \in 1..(Len(s) - 1) : StrLessEq(sort_key(s[i], by), sort_key(s[i + 1], by))

\* the records of the input are tagged by their position (their id)
KeepsInputOrder(s, p, q) == s[p]._id < s[q]._id

IsStable(s, by) ==
    \A p, q \in 1..Len(s) :
        (p < q /\ sort_key(s[p], by) = sort_key(s[q], by)) => KeepsInputOrder(s, p, q)

SortRan == sort_alg # "none"

\* C1: each of the five sort functions returns a permutation of its input
\* that is non-decreasing by the chosen key (name case-insensitively,
\* registration number as a string).
C1_SortedPermutation ==
    SortRan => /\ IsPermutation(sort_input, sort_output)
               /\ IsSortedBy(sort_output, sort_by)

C1_Witness ==
    /\ sort_alg = "shell_sort"
    /\ sort_by = "nama"
    /\ Len(sort_input) = MaxSortLen
    /\ sort_output # sort_input
    /\ \E i \in 1..Len(sort_input) : sort_input[i]._nama # lower(sort_input[i]._nama)

\* C2 as stated: selection_sort keeps records with equal keys in their
\* input order.
C2_SelectionSortStable ==
    sort_alg = "selection_sort" => IsStable(sort_output, sort_by)

\* C2 as amended: selection_sort keeps the input order of the records whose
\* key is the smallest key of the input; records that share a larger key may
\* come out in either order.
C2_SelectionSortStableOnMinimum ==
    sort_alg = "selection_sort" =>
        \A p, q \in 1..Len(sort_output) :
            (/\ p < q
             /\ sort_key(sort_output[p], sort_by) = sort_key(sort_output[q], sort_by)
             /\ \A r \in 1..Len(sort_output) :
                    StrLessEq(sort_key(sort_output[p], sort_by),
                              sort_key(sort_output[r], sort_by)))
            => KeepsInputOrder(sort_output, p, q)

C2_Witness ==
    /\ sort_alg = "selection_sort"
    /\ Len(sort_input) = 3
    /\ sort_output # sort_input
    /\ sort_key(sort_output[1], sort_by) = sort_key(sort_output[2], sort_by)
    /\ sort_key(sort_output[2], sort_by) # sort_key(sort_output[3], sort_by)

\* C3: bubble_sort, insertion_sort and merge_sort keep records with equal
\* keys in their input order.
C3_StableSorts ==
    sort_alg \in {"bubble_sort", "insertion_sort", "merge_sort"}
        => IsStable(sort_output, sort_by)

C3_Witness ==
    /\ sort_alg = "merge_sort"
    /\ sort_output # sort_input
    /\ \E p, q \in 1..Len(sort_output) :
          /\ p < q
          /\ sort_output[p]._nama # sort_output[q]._nama
          /\ sort_key(sort_output[p], sort_by) = sort_key(sort_output[q], sort_by)

(***************************************************************************)
(* Properties of the store.                                                *)
(***************************************************************************)
\* the file holds a JSON list with the id, name and registration number of
\* every record of data, in order
FileHolds(f, data) ==
    /\ f.kind = "json"
    /\ Len(f.doc) = Len(data)
    /\ \A i \in 1..Len(data) :
          /\ f.doc[i].id = data[i]._id
          /\ f.doc[i].nama = data[i]._nama
          /\ f.doc[i].nim = data[i]._nim

InRange(index, data) == 0 <= index /\ index < Len(data)

\* C4: after tambah, edit on a valid index or hapus on a valid index returns
\* without raising, the file holds exactly the serialization of the list in
\* memory.
C4_FileMatchesMemory ==
    [][(/\ last'.op \in {"tambah", "edit", "hapus"}
        /\ last'.op # "tambah" => InRange(last'.index, _data)
        /\ ~last'.raised)
       => FileHolds(file', _data')]_vars

C4_Witness ==
    /\ last.op = "edit"
    /\ ~last.raised
    /\ last.writes = 1
    /\ io_errors > 0
    /\ Len(_data) >= 2
    /\ last.index = 1
    /\ _data[2]._nama = Bob

\* C5: a load that follows a successful write leaves the list in memory as
\* it was when written: same length, same order, and the same id, name and
\* registration number at every position.
C5_RoundTrip ==
    [][(last'.op = "baca_dari_file" /\ last'.follows_save)
       => /\ ~last'.raised
          /\ Len(_data') = Len(_data)
          /\ \A i \in 1..Len(_data) :
                /\ _data'[i]._id = _data[i]._id
                /\ _data'[i]._nama = _data[i]._nama
                /\ _data'[i]._nim = _data[i]._nim]_vars

C5_Witness ==
    /\ last.op = "baca_dari_file"
    /\ last.follows_save
    /\ Len(_data) = 2
    /\ _data[1]._id = 2
    /\ _data[1]._nama = Bob
    /\ _data[2]._id = 3

\* C6: every id a constructor hands out is greater than every id handed out
\* before it, whatever adds, removes and loads came between.
C6_IdsNeverReused ==
    [][last'.new_id # 0 => \A id \in assigned : last'.new_id > id]_vars

\* C9: hapus with 0 <= index < count removes exactly the record at that
\* position: the count drops by one, the records before it stay and the
\* records after it move down by one.
C9_RemoveShifts ==
    [][\A index \in Indices :
        (last'.op = "hapus" /\ last'.index = index /\ InRange(index, _data))
        => /\ Len(_data') = Len(_data) - 1
           /\ \A j \in 0..(index - 1) : At(_data', j) = At(_data, j)
           /\ \A j \in (index + 1)..(Len(_data) - 1) : At(_data', j - 1) = At(_data, j)]_vars

C9_Witness ==
    /\ last.op = "hapus"
    /\ last.index = 0
    /\ Len(_data) = 2
    /\ _data[1]._id = 2
    /\ _data[2]._id = 3

\* C10: with an index that is negative or at least the count, get_by_index
\* returns None and does not raise, and edit and hapus do not raise, leave
\* the list as it was and do not write the file.
C10_InvalidIndexNoOp ==
    [][(/\ last'.op \in {"get_by_index", "edit", "hapus"}
        /\ ~InRange(last'.index, _data))
       => /\ ~last'.raised
          /\ last'.result = <<>>
          /\ _data' = _data
          /\ file' = file
          /\ last'.writes = 0]_vars

C10_Witness ==
    /\ last.op = "hapus"
    /\ last.index = -1
    /\ Len(_data) = 2
    /\ ~FileHolds(file, _data)

\* C11: edit with 0 <= index < count and values both setters accept sets the
\* name and the registration number of the record at that position to the
\* given values and changes nothing else: the record keeps its id and its
\* position, the count and every other record are as before; and when the
\* call returns, the file holds the list with the new values.
C11_EditChangesOnlyNameAndNim ==
    [][\A index \in Indices, args \in EditArgs :
        (/\ last'.op = "edit"
         /\ last'.index = index
         /\ InRange(index, _data)
         /\ ~strip_is_empty(args[1])
         /\ nim_setter_accepts(args[2])
         /\ EditCall(index, args[1], args[2]))
        => /\ Len(_data') = Len(_data)
           /\ \A j \in 0..(Len(_data) - 1) : j # index => At(_data', j) = At(_data, j)
           /\ At(_data', index) = [_nama |-> args[1], _nim |-> args[2], _id |-> At(_data, index)._id]
           /\ last'.writes = 1
           /\ ~last'.raised
              => /\ FileHolds(file', _data')
                 /\ At(file'.doc, index).nama = args[1]
                 /\ At(file'.doc, index).nim = args[2]]_vars

C11_Witness ==
    /\ last.op = "edit"
    /\ last.index = 1
    /\ ~last.raised
    /\ last.writes = 1
    /\ Len(_data) = 3
    /\ _data[1] = [_nama |-> Ada, _nim |-> Nim1, _id |-> 1]
    /\ _data[2] = [_nama |-> Bob, _nim |-> Nim20, _id |-> 2]
    /\ file = Json(Serialize(_data))

\* C12: when the process ends between a change of the list and the end of
\* the write that follows it, the file is left either exactly as it was
\* before the call or as a complete dump of the list as the call left it,
\* never truncated or partly written; the load of the next process does not
\* raise and returns the list as it was before the call or after it.
C12_CrashLosesOnlyPendingChange ==
    [][last'.op = "crash"
       => /\ file' = file \/ file' \in { Json(Serialize(r.data)) : r \in saving_calls(_data, _total_mahasiswa) }
          /\ ~last'.raised
          /\ FileHolds(file, _data)
             => _data' = _data \/ _data' \in { r.data : r \in saving_calls(_data, _total_mahasiswa) }]_vars
\* C13: whatever tambah, edit and hapus do to the store after get_all
\* returned a list, that list holds what it held when it was returned: the
\* same length and, at every position, the same name and registration number.
C13_SnapshotImmune ==
    /\ Len(snapshot) = Len(snapshot_taken)
    /\ \A k \in 1..Len(snapshot) :
          /\ deref(snapshot[k], _data)._nama = snapshot_taken[k]._nama
          /\ deref(snapshot[k], _data)._nim = snapshot_taken[k]._nim

\* C14: Mahasiswa(nama, nim) with a name that is empty after strip() or a
\* registration number the setter's pattern rejects raises, returns no
\* object and leaves the id counter as it was.
C14_ConstructorValidates ==
    [][\A args \in ConstructArgs :
        (/\ last'.op = "Mahasiswa"
         /\ strip_is_empty(args[1]) \/ ~nim_setter_accepts(args[2])
         /\ ConstructCall(args[1], args[2]))
        => /\ last'.raised
           /\ last'.result = <<>>
           /\ _total_mahasiswa' = _total_mahasiswa]_vars
\* the ids of the records a file holds, and the largest of a set of ids
FileIds(f) == { f.doc[i].id : i \in 1..Len(f.doc) }
Largest(S) == IF S = {} THEN 0 ELSE CHOOSE m \in S : \A x \in S : x <= m

\* C15: the first record constructed after baca_dari_file has loaded an
\* existing file gets the id one above the largest id in the file (1 when the
\* file holds no record), whatever the counter was before the load; that id
\* is the id of none of the loaded records.
C15_NextIdAfterLoad ==
    [][(/\ last.op = "baca_dari_file"
        /\ ~last.raised
        /\ file.kind = "json"
        /\ last'.op = "tambah")
       => /\ last'.new_id = Largest(FileIds(file)) + 1
          /\ \A i \in 1..Len(_data) : _data[i]._id # last'.new_id
          /\ Len(_data) = Len(file.doc)]_vars

\* a record added with an id that was handed out before: the counter was
\* above the largest id of the file when the load set it
C15_Witness ==
    /\ last.op = "tambah"
    /\ last.new_id = 2
    /\ Len(_data) = 2
    /\ _data[1]._id = 1
    /\ _data[2]._id = 2
    /\ 3 \in assigned
\* C19: the list a caller passes to a sort function stays as it is, through
\* the call of any of the five functions and through whatever the caller
\* then does to the list the function returned.
C19_SortLeavesInput ==
    [][sort_input' = sort_input]_vars
\* C20: when edit on an index with 0 <= index < count raises because the
\* name is empty after strip() or the registration number does not match the
\* setter's pattern, the record at that position has the name and the
\* registration number it had, and a list that matched the file before the
\* call matches it after.
C20_EditAllOrNothing ==
    [][\A index \in Indices, args \in EditArgs :
        (/\ last'.op = "edit"
         /\ last'.index = index
         /\ InRange(index, _data)
         /\ strip_is_empty(args[1]) \/ ~nim_setter_accepts(args[2])
         /\ EditCall(index, args[1], args[2]))
        => /\ last'.raised
           /\ At(_data', index)._nama = At(_data, index)._nama
           /\ At(_data', index)._nim = At(_data, index)._nim
           /\ FileHolds(file, _data) => FileHolds(file', _data')]_vars
(***************************************************************************)
(* Properties of the store under the handlers of the application.          *)
(***************************************************************************)
DistinctNims(data) ==
    \A i, j \in 1..Len(data) : i # j => data[i]._nim # data[j]._nim

\* C7: in every state the handlers reach from the empty store (input form,
\* edit form, import, delete, load of the sample data), no two records of
\* the store have the same registration number.  The 31 sample records
\* themselves carry pairwise distinct registration numbers.
sample_nims_distinct ==
    \A i, j \in 1..Len(sample_data_all) :
        i # j => sample_data_all[i][2] # sample_data_all[j][2]

C7_UniqueRegistrationNumbers == DistinctNims(_data) /\ sample_nims_distinct

C7_Witness ==
    /\ last.op = "import"
    /\ ~last.raised
    /\ last.writes = 2
    /\ Len(_data) = 2
    /\ _data[1]._id = _data[2]._id

\* the positions of a batch whose record is to be appended: its registration
\* number is in no record of the store and in no earlier record of the batch
Fresh(batch, data) ==
    { k \in 1..Len(batch) :
        /\ \A i \in 1..Len(data) : data[i]._nim # batch[k].nim
        /\ \A j \in 1..(k - 1) : batch[j].nim # batch[k].nim }

\* the m-th smallest member of a set of positions
Nth(S, m) == CHOOSE k \in S : Cardinality({ j \in S : j < k }) = m - 1

\* C16: an import that runs to its end leaves the records of the store as
\* they were and in their order, appends behind them, in the order of the
\* batch, exactly the batch records whose registration number neither the
\* store nor an earlier record of the batch carries, and reports as its count
\* the number of records it appended.
C16_ImportAppendsFresh ==
    [][\A batch \in ImportBatches :
        (/\ last'.op = "import"
         /\ ~last'.raised
         /\ ImportCall(batch))
        => LET fresh == Fresh(batch, _data)
               n == Cardinality(fresh)
           IN  /\ Len(_data') = Len(_data) + n
               /\ \A i \in 1..Len(_data) : _data'[i] = _data[i]
               /\ \A m \in 1..n :
                     /\ _data'[Len(_data) + m]._nama = batch[Nth(fresh, m)].nama
                     /\ _data'[Len(_data) + m]._nim = batch[Nth(fresh, m)].nim
                     /\ _data'[Len(_data) + m]._id = batch[Nth(fresh, m)].id
               /\ last'.result = << n >>
               /\ last'.result = << Len(_data') - Len(_data) >>]_vars

\* an import that appended one record behind a record with another number
C16_Witness ==
    /\ last.op = "import"
    /\ ~last.raised
    /\ last.result = << 1 >>
    /\ last.writes = 2
    /\ Len(_data) = 2
    /\ _data[1]._nim # _data[2]._nim
    /\ _data[2]._nama = sample_data_all[1][1]
\* a displayed list of n rows, each record with a number of its own
Rows(n) == [i \in 1..n |-> Mahasiswa(<<97>>, <<48 + i>>, i - 1)]

\* the loop of the delete screen, run on every list of up to MaxRows rows
\* with every set of rows ticked, ends with the rows not ticked, in order
delete_loop_keeps_unselected ==
    \A n \in 1..MaxRows, selected_indices \in SUBSET (0..(MaxRows - 1)) :
        selected_indices \subseteq 0..(n - 1)
        => LET stages == delete_loop(selected_indices, n, << Stage(Rows(n), n) >>)
               unselected == { k \in 1..n : (k - 1) \notin selected_indices }
               left == stages[Len(stages)].data
           IN  /\ Len(stages) = Cardinality(selected_indices) + 1
               /\ Len(left) = Cardinality(unselected)
               /\ \A m \in 1..Len(left) : left[m] = Rows(n)[Nth(unselected, m)]

\* C21: a delete from the delete screen that runs to its end, with any
\* non-empty set of rows of the displayed list ticked, calls hapus once per
\* ticked row, highest index first, and leaves in the store the records of
\* the rows that were not ticked and no other, in the order they had.
C21_DeleteRemovesSelected ==
    [][/\ delete_loop_keeps_unselected
       /\ \A selected_indices \in SUBSET (0..(Len(_data) - 1)) :
            (/\ last'.op = "delete"
             /\ ~last'.raised
             /\ selected_indices # {}
             /\ DeleteCall(selected_indices))
            => LET unselected == { k \in 1..Len(_data) : (k - 1) \notin selected_indices }
               IN  /\ Len(_data') = Cardinality(unselected)
                   /\ Len(_data') = Len(_data) - Cardinality(selected_indices)
                   /\ last'.writes = Cardinality(selected_indices) + 1
                   /\ \A m \in 1..Len(_data') : _data'[m] = _data[Nth(unselected, m)]]_vars

\* both rows of a list of two were ticked: two calls of hapus and the final
\* save, and the store and the file are empty
C21_Witness ==
    /\ last.op = "delete"
    /\ ~last.raised
    /\ last.writes = 3
    /\ _data = <<>>
    /\ file = Json(<<>>)
    /\ _total_mahasiswa >= 2
\* C8: in every state of the store the records have pairwise distinct ids.
C8_DistinctIds ==
    \A i, j \in 1..Len(_data) : i # j => _data[i]._id # _data[j]._id

(***************************************************************************)
(* Properties of the search functions.                                     *)
(***************************************************************************)
\* C17: on a list whose records have pairwise distinct registration numbers,
\* in whatever order, binary_search returns the record whose registration
\* number is the one searched for when the list has one and None otherwise;
\* its loop ends after at most as many passes as the list has records; and
\* the list passed is as it was.
C17_BinarySearchFinds ==
    [][(search'.alg = "binary_search" /\ DistinctNims(search.data))
       => /\ search'.data = search.data
          /\ search'.steps <= Len(search.data)
          /\ \A i \in 1..Len(search.data) :
                search.data[i]._nim = search'.keyword => search'.result = << search.data[i] >>
          /\ (\A i \in 1..Len(search.data) : search.data[i]._nim # search'.keyword)
                => search'.result = <<>>]_vars

\* found in a list that is not in the order of the registration numbers
C17_Witness ==
    /\ search.alg = "binary_search"
    /\ Len(search.data) = 3
    /\ search.data[1]._nim = <<50>>
    /\ search.data[2]._nim = <<49, 50>>
    /\ search.data[3]._nim = <<49>>
    /\ search.keyword = <<49>>
    /\ search.result = << search.data[3] >>
    /\ search.steps = 2

\* keyword occurs in value as a run of consecutive characters, letter case
\* aside
OccursIgnoringCase(keyword, value) ==
    \E a \in 1..(Len(value) + 1), b \in 0..Len(value) :
        SubSeq(lower(value), a, b) = lower(keyword)

SearchedField(mhs, by) == IF by = "nama" THEN mhs._nama ELSE mhs._nim

\* C18: linear_search returns the records whose chosen field holds the
\* keyword as a substring, letter case aside: each of them once, in the
\* order they have in the list, and no other; with the empty keyword that is
\* the whole list.  sequential_search returns what linear_search returns for
\* the field nama.
C18_LinearSearchMatches ==
    search.alg \in {"linear_search", "sequential_search"}
    => LET matching == { k \in 1..Len(search.data) :
                          OccursIgnoringCase(search.keyword, SearchedField(search.data[k], search.by)) }
       IN  /\ Len(search.result) = Cardinality(matching)
           /\ \A m \in 1..Len(search.result) : search.result[m] = search.data[Nth(matching, m)]
           /\ search.keyword = <<>> => search.result = search.data
           /\ search.alg = "sequential_search"
              => /\ search.by = "nama"
                 /\ search.result = linear_search(search.data, search.keyword, "nama").result

\* "ab" found in "Ab" and "aB" and not in "ba"
C18_Witness ==
    /\ search.alg = "linear_search"
    /\ search.by = "nama"
    /\ search.keyword = <<97, 98>>
    /\ Len(search.data) = 3
    /\ search.data[1]._nama = <<65, 98>>
    /\ search.data[2]._nama = <<98, 97>>
    /\ search.data[3]._nama = <<97, 66>>
    /\ search.result = << search.data[1], search.data[3] >>

====
